---- MODULE Spec2Model ----
(***************************************************************************)
(* Model of src/app.py: the signal / strategy record store behind the     *)
(* Flask routes, and the socket.io broadcast of new_signal and            *)
(* signal_resolved.                                                       *)
(*                                                                         *)
(* Spec     : requests are served one at a time (each handler is one      *)
(*            action).                                                    *)
(* SpecConc : requests are served by threads (async_mode='threading'),    *)
(*            each with its own SQLAlchemy session; the steps of the      *)
(*            handlers interleave at the database accesses.               *)
(***************************************************************************)
EXTENDS Integers, Sequences, FiniteSets, TLC

VARIABLES
    signals,      \* table signal: sequence of rows, row i has id i
    strategies,   \* table strategy: sequence of rows (insertion order)
    nextStrategy, \* next fresh strategy id (uuid4 modelled as a counter)
    now,          \* datetime.utcnow()
    connected,    \* socket.io clients currently connected
    inbox,        \* per client: the event frames it received, in order
    emitted,      \* every socketio.emit call, in order
    nreq,         \* number of requests accepted so far
    last,         \* the last request served (Spec) with its response
    pc,           \* per thread: position in its handler (SpecConc)
    sess          \* per thread: request and SQLAlchemy session state (SpecConc)

vars == <<signals, strategies, nextStrategy, now, connected, inbox, emitted,
          nreq, last, pc, sess>>

----------------------------------------------------------------------------
\* Bounds of the model

MaxRequests == 3
MaxClock == 1
MaxHistory == 16

\* rows the strategy catalog holds at most in SpecCatalog
MaxStrategies == 2

Clients == {"c1", "c2"}
Threads == {"t1", "t2"}

\* the one viewer of Spec; SpecFanout connects every client
Viewers == {"c1"}

----------------------------------------------------------------------------
\* JSON values of request bodies, and column values

Null == [null |-> TRUE]
Str(s) == [str |-> s]
Num(n) == [int |-> n]
List(q) == [list |-> q]
DateTime(t) == [dt |-> t]
Text(q) == [text |-> q]

\* the two values of Signal.status
Active == Str("active")
Completed == Str("completed")

\* an unhandled Python exception (KeyError, ValueError, TypeError, IntegrityError)
Raised == [raised |-> TRUE]

IsStr(v) == "str" \in DOMAIN v
IsNum(v) == "int" \in DOMAIN v
IsList(v) == "list" \in DOMAIN v
IsText(v) == "text" \in DOMAIN v

\* Python truthiness of a column value: None and '' are falsy, a datetime is truthy
Truthy(v) ==
    IF v = Null THEN FALSE
    ELSE IF IsStr(v) THEN v.str # ""
    ELSE IF IsNum(v) THEN v.int # 0
    ELSE IF IsList(v) THEN v.list # <<>>
    ELSE IF IsText(v) THEN v.text # <<>>
    ELSE TRUE

\* int(x) for the values the requests of this model carry: Num(n), or Raised
IntOf(v) ==
    IF IsNum(v) THEN v
    ELSE IF IsStr(v) /\ v.str = "5" THEN Num(5)
    ELSE Raised

\* datetime.isoformat()
IsoFormat(d) == [iso |-> d.dt]

\* The bodies of POST /api/signals
CreateBodies ==
    { [pair |-> Str("EUR/USD"), direction |-> Str("buy"),  duration |-> Num(5)],
      [pair |-> Str("EUR/USD"), direction |-> Str("sell"), duration |-> Str("5")],
      [pair |-> Str(""),        direction |-> Str("hold"), duration |-> Num(0)],
      [pair |-> Null,           direction |-> Str("buy"),  duration |-> Num(5)],
      [direction |-> Str("buy"), duration |-> Str("abc")] }

\* The bodies of POST /api/signals/<id>/resolve
ResolveBodies ==
    { [result |-> Str("win")],
      [result |-> Str("loss")],
      [result |-> Str("draw")],
      [result |-> Null],
      [other |-> Null] }

\* The ids a resolve request may name: the stored ones and one that is not stored
SignalIds == 1 .. (Len(signals) + 1)

\* The bodies of POST /api/strategies
StrategyBodies ==
    { [title |-> Str("Trend"), content |-> Str("Follow it"),
       images |-> List(<<Str("http://a"), Str("http://b")>>)],
      [title |-> Str("Trend"), content |-> Str("Follow it")] }

----------------------------------------------------------------------------
\* class Signal

\* the row a flush inserts for Signal(pair=, direction=, duration=): the column
\* defaults fill id, created_at and status; result and resolved_at stay NULL
\* variant: the status default is not 'active'
SignalRowCompletedDefault(id, pair, direction, duration, t) ==
    [ id |-> id,
      pair |-> pair,
      direction |-> direction,
      duration |-> duration,
      created_at |-> DateTime(t),
      status |-> Completed,
      result |-> Null,
      resolved_at |-> Null ]

SignalRow(id, pair, direction, duration, t) ==
    [ id |-> id,
      pair |-> pair,
      direction |-> direction,
      duration |-> duration,
      created_at |-> DateTime(t),
      status |-> Active,
      result |-> Null,
      resolved_at |-> Null ]

\* variant: the dict is built without the result column
Signal_to_dict_NoResult(s) ==
    [ id |-> s.id,
      pair |-> s.pair,
      direction |-> s.direction,
      duration |-> s.duration,
      created_at |-> IsoFormat(s.created_at),
      status |-> s.status,
      result |-> Null,
      resolved_at |-> IF Truthy(s.resolved_at) THEN IsoFormat(s.resolved_at) ELSE Null ]

Signal_to_dict(s) ==
    [ id |-> s.id,
      pair |-> s.pair,
      direction |-> s.direction,
      duration |-> s.duration,
      created_at |-> IsoFormat(s.created_at),
      status |-> s.status,
      result |-> s.result,
      resolved_at |-> IF Truthy(s.resolved_at) THEN IsoFormat(s.resolved_at) ELSE Null ]

\* variant: Signal.query.first(), whatever the id
SignalQueryFirst(tbl, id) == IF tbl # <<>> THEN tbl[1] ELSE Null

\* Signal.query.get(signal_id): the row, or None
SignalQueryGet(tbl, id) == IF id \in DOMAIN tbl THEN tbl[id] ELSE Null

----------------------------------------------------------------------------
\* socketio.emit(name, payload): one frame to every client connected now

Event(name, payload) == [name |-> name, payload |-> payload]

\* variant: the frame goes to one connected client only
EmitUnicast(name, payload) ==
    /\ emitted' = Append(emitted, Event(name, payload))
    /\ inbox' = [c \in Clients |->
                    IF connected # {} /\ c = CHOOSE d \in connected : TRUE
                    THEN Append(inbox[c], Event(name, payload))
                    ELSE inbox[c]]

Emit(name, payload) ==
    /\ emitted' = Append(emitted, Event(name, payload))
    /\ inbox' = [c \in Clients |->
                    IF c \in connected THEN Append(inbox[c], Event(name, payload))
                    ELSE inbox[c]]

\* variant: a request that returns early or raises still emits
NoEmitLeaks ==
    /\ emitted' = Append(emitted, Event("signal_resolved", Null))
    /\ UNCHANGED inbox

NoEmit == UNCHANGED <<emitted, inbox>>

----------------------------------------------------------------------------
\* POST /api/signals

\* Signal(pair=data['pair'], direction=data['direction'], duration=int(data['duration']))
CreateArgs(data) ==
    IF ~({"pair", "direction", "duration"} \subseteq DOMAIN data) THEN Raised
    ELSE IF IntOf(data.duration) = Raised THEN Raised
    ELSE [pair |-> data.pair, direction |-> data.direction,
          duration |-> IntOf(data.duration).int]

\* the INSERT fails on a NULL in a nullable=False column
InsertAccepted(args) == args.pair # Null /\ args.direction # Null

CreateFails(data) ==
    \/ CreateArgs(data) = Raised
    \/ ~InsertAccepted(CreateArgs(data))

handle_signals_POST(data) ==
    /\ nreq < MaxRequests
    /\ nreq' = nreq + 1
    /\ IF CreateFails(data)
       THEN /\ UNCHANGED signals
            /\ NoEmit
            /\ last' = [op |-> "create", data |-> data, code |-> 500]
       ELSE LET args == CreateArgs(data)
                id == Len(signals) + 1
                stored == Append(signals,
                                 SignalRow(id, args.pair, args.direction,
                                           args.duration, now))
            IN /\ signals' = stored
               /\ Emit("new_signal", Signal_to_dict(stored[id]))
               /\ last' = [op |-> "create", data |-> data, code |-> 200,
                           body |-> [success |-> TRUE,
                                     signal |-> Signal_to_dict(stored[id])]]
    /\ UNCHANGED <<strategies, nextStrategy, now, connected, pc, sess>>

----------------------------------------------------------------------------
\* POST /api/signals/<signal_id>/resolve

\* variant: the status is left as it was
ResolveFieldsNoStatus(s, data, t) ==
    IF "result" \in DOMAIN data
    THEN [s EXCEPT !.result = data.result,
                   !.resolved_at = DateTime(t)]
    ELSE Raised

\* variant: a resolve of a completed signal re-opens it
ResolveFieldsReopens(s, data, t) ==
    IF "result" \in DOMAIN data
    THEN [s EXCEPT !.status = IF s.status = Completed THEN Active ELSE Completed,
                   !.result = data.result,
                   !.resolved_at = DateTime(t)]
    ELSE Raised

\* variant: the timestamp is written to created_at
ResolveFieldsCreatedAt(s, data, t) ==
    IF "result" \in DOMAIN data
    THEN [s EXCEPT !.status = Completed,
                   !.result = data.result,
                   !.created_at = DateTime(t)]
    ELSE Raised

\* the three assignments of the handler, on the loaded object
ResolveFields(s, data, t) ==
    IF "result" \in DOMAIN data
    THEN [s EXCEPT !.status = Completed,
                   !.result = data.result,
                   !.resolved_at = DateTime(t)]
    ELSE Raised

resolve_signal(signal_id, data) ==
    /\ nreq < MaxRequests
    /\ nreq' = nreq + 1
    /\ LET signal == SignalQueryGet(signals, signal_id)
       IN IF ~Truthy(signal)
          THEN /\ UNCHANGED signals
               /\ NoEmit
               /\ last' = [op |-> "resolve", id |-> signal_id, data |-> data,
                           code |-> 404, body |-> [error |-> "Signal not found"]]
          ELSE IF ResolveFields(signal, data, now) = Raised
          THEN /\ UNCHANGED signals
               /\ NoEmit
               /\ last' = [op |-> "resolve", id |-> signal_id, data |-> data,
                           code |-> 500]
          ELSE LET stored == [signals EXCEPT
                                 ![signal.id] = ResolveFields(signal, data, now)]
               IN /\ signals' = stored
                  /\ Emit("signal_resolved", Signal_to_dict(stored[signal.id]))
                  /\ last' = [op |-> "resolve", id |-> signal_id, data |-> data,
                              code |-> 200, body |-> [success |-> TRUE]]
    /\ UNCHANGED <<strategies, nextStrategy, now, connected, pc, sess>>

----------------------------------------------------------------------------
\* class Strategy, and json.dumps / json.loads of the images column

RECURSIVE DumpsItems(_)
DumpsItems(q) ==
    IF q = <<>> THEN <<>>
    ELSE IF Len(q) = 1 THEN <<"\"", Head(q).str, "\"">>
    ELSE <<"\"", Head(q).str, "\"", ",">> \o DumpsItems(Tail(q))

\* variant: only the first item of a list is written
DumpsFirstItem(v) ==
    IF v = Null THEN Text(<<"null">>)
    ELSE IF IsStr(v) THEN Text(<<"\"", v.str, "\"">>)
    ELSE Text(<<"[">> \o DumpsItems(IF v.list = <<>> THEN <<>> ELSE <<Head(v.list)>>) \o <<"]">>)

\* json.dumps(v) as the sequence of tokens of its text
Dumps(v) ==
    IF v = Null THEN Text(<<"null">>)
    ELSE IF IsStr(v) THEN Text(<<"\"", v.str, "\"">>)
    ELSE Text(<<"[">> \o DumpsItems(v.list) \o <<"]">>)

RECURSIVE LoadsItems(_)
LoadsItems(q) ==
    IF Len(q) < 3 \/ q[1] # "\"" \/ q[3] # "\"" THEN Raised
    ELSE IF Len(q) = 3 THEN List(<<Str(q[2])>>)
    ELSE IF q[4] # "," THEN Raised
    ELSE LET rest == LoadsItems(SubSeq(q, 5, Len(q)))
         IN IF rest = Raised THEN Raised
            ELSE List(<<Str(q[2])>> \o rest.list)

\* json.loads(text): the value, or Raised on malformed text
Loads(x) ==
    LET q == x.text
    IN IF q = <<"null">> THEN Null
       ELSE IF Len(q) = 3 /\ q[1] = "\"" /\ q[3] = "\"" THEN Str(q[2])
       ELSE IF Len(q) >= 2 /\ q[1] = "[" /\ q[Len(q)] = "]"
            THEN IF Len(q) = 2 THEN List(<<>>)
                 ELSE LoadsItems(SubSeq(q, 2, Len(q) - 1))
       ELSE Raised

StrategyRow(id, title, content, images, t) ==
    [ id |-> id,
      title |-> title,
      content |-> content,
      images |-> images,
      created_at |-> DateTime(t) ]

Strategy_to_dict(s) ==
    LET imgs == IF Truthy(s.images)
                THEN IF Loads(s.images) = Raised THEN List(<<>>)
                     ELSE Loads(s.images)
                ELSE List(<<>>)
    IN [ id |-> s.id,
         title |-> s.title,
         content |-> s.content,
         images |-> imgs,
         created_at |-> IsoFormat(s.created_at) ]

----------------------------------------------------------------------------
\* POST /api/strategies

\* Strategy(title=data['title'], content=data['content'],
\*          images=json.dumps(data.get('images', [])))
StrategyArgs(data) ==
    IF ~({"title", "content"} \subseteq DOMAIN data) THEN Raised
    ELSE [title |-> data.title, content |-> data.content,
          images |-> Dumps(IF "images" \in DOMAIN data THEN data.images
                           ELSE List(<<>>))]

StrategyInsertAccepted(args) == args.title # Null /\ args.content # Null

StrategyCreateFails(data) ==
    \/ StrategyArgs(data) = Raised
    \/ ~StrategyInsertAccepted(StrategyArgs(data))

handle_strategies_POST(data) ==
    /\ nreq < MaxRequests
    /\ nreq' = nreq + 1
    /\ IF StrategyCreateFails(data)
       THEN /\ UNCHANGED <<strategies, nextStrategy>>
            /\ last' = [op |-> "create_strategy", data |-> data, code |-> 500]
       ELSE LET args == StrategyArgs(data)
                row == StrategyRow(nextStrategy, args.title, args.content,
                                   args.images, now)
            IN /\ strategies' = Append(strategies, row)
               /\ nextStrategy' = nextStrategy + 1
               /\ last' = [op |-> "create_strategy", data |-> data, code |-> 200,
                           body |-> [success |-> TRUE,
                                     strategy |-> Strategy_to_dict(row)]]
    /\ NoEmit
    /\ UNCHANGED <<signals, now, connected, pc, sess>>

----------------------------------------------------------------------------
\* DELETE /api/strategies and DELETE /api/strategies/<strategy_id>

\* ids a delete request can name: every id handed out so far and one that was
\* never created
StrategyIds == 1 .. nextStrategy

\* Strategy.query.get(strategy_id): the row, or None
StrategyQueryGet(tbl, id) ==
    IF \E i \in DOMAIN tbl : tbl[i].id = id
    THEN tbl[CHOOSE i \in DOMAIN tbl : tbl[i].id = id]
    ELSE Null

\* variant: the oldest row is deleted, whichever was loaded
SessionDeleteOldest(tbl, strategy) == Tail(tbl)

\* db.session.delete(strategy); db.session.commit()
SessionDelete(tbl, strategy) ==
    LET Keep(s) == s.id # strategy.id IN SelectSeq(tbl, Keep)

\* variant: only the oldest row is deleted
QueryDeleteOldest(tbl) == IF tbl = <<>> THEN <<>> ELSE Tail(tbl)

\* Strategy.query.delete(); db.session.commit()
QueryDelete(tbl) == <<>>

\* variant: the signals go with the strategies
handle_strategies_DELETE_Cascade ==
    /\ nreq < MaxRequests
    /\ nreq' = nreq + 1
    /\ strategies' = QueryDelete(strategies)
    /\ signals' = <<>>
    /\ last' = [op |-> "delete_all_strategies", code |-> 200,
                body |-> [success |-> TRUE]]
    /\ NoEmit
    /\ UNCHANGED <<nextStrategy, now, connected, pc, sess>>

handle_strategies_DELETE ==
    /\ nreq < MaxRequests
    /\ nreq' = nreq + 1
    /\ strategies' = QueryDelete(strategies)
    /\ last' = [op |-> "delete_all_strategies", code |-> 200,
                body |-> [success |-> TRUE]]
    /\ NoEmit
    /\ UNCHANGED <<signals, nextStrategy, now, connected, pc, sess>>

\* variant: a deletion is announced to the subscribers
delete_strategy_Announces(strategy_id) ==
    /\ nreq < MaxRequests
    /\ nreq' = nreq + 1
    /\ LET strategy == StrategyQueryGet(strategies, strategy_id)
       IN IF Truthy(strategy)
          THEN /\ strategies' = SessionDelete(strategies, strategy)
               /\ Emit("strategy_deleted", Num(strategy_id))
               /\ last' = [op |-> "delete_strategy", id |-> strategy_id,
                           code |-> 200, body |-> [success |-> TRUE]]
          ELSE /\ UNCHANGED strategies
               /\ NoEmit
               /\ last' = [op |-> "delete_strategy", id |-> strategy_id,
                           code |-> 404, body |-> [error |-> "Strategy not found"]]
    /\ UNCHANGED <<signals, nextStrategy, now, connected, pc, sess>>

delete_strategy(strategy_id) ==
    /\ nreq < MaxRequests
    /\ nreq' = nreq + 1
    /\ LET strategy == StrategyQueryGet(strategies, strategy_id)
       IN IF Truthy(strategy)
          THEN /\ strategies' = SessionDelete(strategies, strategy)
               /\ last' = [op |-> "delete_strategy", id |-> strategy_id,
                           code |-> 200, body |-> [success |-> TRUE]]
          ELSE /\ UNCHANGED strategies
               /\ last' = [op |-> "delete_strategy", id |-> strategy_id,
                           code |-> 404, body |-> [error |-> "Strategy not found"]]
    /\ NoEmit
    /\ UNCHANGED <<signals, nextStrategy, now, connected, pc, sess>>

----------------------------------------------------------------------------
\* The handlers as run by request threads (SpecConc).  Each thread has its own
\* session: the object it loaded, its pending attribute writes, and, after the
\* commit, attributes that are expired and reloaded by the next to_dict().

IdleSess ==
    [op |-> "none", id |-> 0, data |-> Null, loaded |-> Null, obj |-> Null,
     payload |-> Null, code |-> 0]

\* db.session.commit() of a modified object: one UPDATE, atomic in the database,
\* that sets the columns whose value differs from the loaded one
FlushUpdate(row, loaded, obj) ==
    [f \in DOMAIN row |-> IF obj[f] # loaded[f] THEN obj[f] ELSE row[f]]

Respond(t, code) ==
    /\ pc' = [pc EXCEPT ![t] = "idle"]
    /\ sess' = [sess EXCEPT ![t].code = code]

\* signal = Signal.query.get(signal_id); if not signal: return 404
ResolveLookup(t, signal_id, data) ==
    /\ pc[t] = "idle"
    /\ nreq < MaxRequests
    /\ nreq' = nreq + 1
    /\ LET signal == SignalQueryGet(signals, signal_id)
           req == [IdleSess EXCEPT !.op = "resolve", !.id = signal_id, !.data = data]
       IN IF ~Truthy(signal)
          THEN /\ pc' = [pc EXCEPT ![t] = "idle"]
               /\ sess' = [sess EXCEPT ![t] = [req EXCEPT !.code = 404]]
          ELSE /\ pc' = [pc EXCEPT ![t] = "resolve_loaded"]
               /\ sess' = [sess EXCEPT ![t] = [req EXCEPT !.loaded = signal,
                                                         !.obj = signal]]
    /\ UNCHANGED <<signals, strategies, nextStrategy, now, connected, inbox,
                   emitted, last>>

\* data = request.get_json(); the three attribute writes (a KeyError ends the
\* request with 500 and the session is discarded)
ResolveWrite(t) ==
    /\ pc[t] = "resolve_loaded"
    /\ LET obj == ResolveFields(sess[t].obj, sess[t].data, now)
       IN IF obj = Raised
          THEN Respond(t, 500)
          ELSE /\ pc' = [pc EXCEPT ![t] = "resolve_written"]
               /\ sess' = [sess EXCEPT ![t].obj = obj]
    /\ UNCHANGED <<signals, strategies, nextStrategy, now, connected, inbox,
                   emitted, nreq, last>>

\* db.session.commit()
ResolveCommit(t) ==
    /\ pc[t] = "resolve_written"
    /\ LET id == sess[t].loaded.id
       IN signals' = [signals EXCEPT
                         ![id] = FlushUpdate(signals[id], sess[t].loaded, sess[t].obj)]
    /\ pc' = [pc EXCEPT ![t] = "resolve_committed"]
    /\ UNCHANGED <<strategies, nextStrategy, now, connected, inbox, emitted,
                   nreq, last, sess>>

\* signal.to_dict(): the expired attributes are reloaded from the database
ResolveRefresh(t) ==
    /\ pc[t] = "resolve_committed"
    /\ pc' = [pc EXCEPT ![t] = "resolve_emit"]
    /\ sess' = [sess EXCEPT ![t].obj = signals[sess[t].loaded.id],
                            ![t].payload = Signal_to_dict(signals[sess[t].loaded.id])]
    /\ UNCHANGED <<signals, strategies, nextStrategy, now, connected, inbox,
                   emitted, nreq, last>>

\* socketio.emit('signal_resolved', ...); return {'success': True}
ResolveEmit(t) ==
    /\ pc[t] = "resolve_emit"
    /\ Emit("signal_resolved", sess[t].payload)
    /\ Respond(t, 200)
    /\ UNCHANGED <<signals, strategies, nextStrategy, now, connected, nreq, last>>

\* Signal(...); db.session.add(signal); db.session.commit()
CreateCommit(t, data) ==
    /\ pc[t] = "idle"
    /\ nreq < MaxRequests
    /\ nreq' = nreq + 1
    /\ LET req == [IdleSess EXCEPT !.op = "create", !.data = data]
       IN IF CreateFails(data)
          THEN /\ UNCHANGED signals
               /\ pc' = [pc EXCEPT ![t] = "idle"]
               /\ sess' = [sess EXCEPT ![t] = [req EXCEPT !.code = 500]]
          ELSE LET args == CreateArgs(data)
                   id == Len(signals) + 1
                   row == SignalRow(id, args.pair, args.direction, args.duration, now)
               IN /\ signals' = Append(signals, row)
                  /\ pc' = [pc EXCEPT ![t] = "create_committed"]
                  /\ sess' = [sess EXCEPT ![t] = [req EXCEPT !.id = id,
                                                            !.loaded = row]]
    /\ UNCHANGED <<strategies, nextStrategy, now, connected, inbox, emitted, last>>

\* signal.to_dict(): the expired attributes are reloaded from the database
CreateRefresh(t) ==
    /\ pc[t] = "create_committed"
    /\ pc' = [pc EXCEPT ![t] = "create_emit"]
    /\ sess' = [sess EXCEPT ![t].obj = signals[sess[t].id],
                            ![t].payload = Signal_to_dict(signals[sess[t].id])]
    /\ UNCHANGED <<signals, strategies, nextStrategy, now, connected, inbox,
                   emitted, nreq, last>>

\* socketio.emit('new_signal', ...); return {'success': True, 'signal': ...}
CreateEmit(t) ==
    /\ pc[t] = "create_emit"
    /\ Emit("new_signal", sess[t].payload)
    /\ Respond(t, 200)
    /\ UNCHANGED <<signals, strategies, nextStrategy, now, connected, nreq, last>>

----------------------------------------------------------------------------
\* The GET routes.  A read changes nothing but the response it returns.

\* variant: the rows come oldest first
OrderByCreatedAsc(tbl) ==
    { [k \in 1 .. Len(tbl) |-> tbl[p[k]]] : p \in
        { p \in Permutations(1 .. Len(tbl)) :
            \A k \in 1 .. (Len(tbl) - 1) :
                tbl[p[k]].created_at.dt <= tbl[p[k + 1]].created_at.dt } }

\* order_by(created_at.desc()).all(): the rows, newest first; SQL leaves the
\* order of rows with equal created_at open
OrderByCreatedDesc(tbl) ==
    { [k \in 1 .. Len(tbl) |-> tbl[p[k]]] : p \in
        { p \in Permutations(1 .. Len(tbl)) :
            \A k \in 1 .. (Len(tbl) - 1) :
                tbl[p[k]].created_at.dt >= tbl[p[k + 1]].created_at.dt } }

\* variant: the filter on status is missing
FilterByStatusAll(tbl, status) == tbl

\* filter_by(status=...).all()
FilterByStatus(tbl, status) ==
    LET Keep(s) == s.status = status IN SelectSeq(tbl, Keep)

\* variant: every row with a result counts
CountByResultAny(tbl, result) ==
    Cardinality({i \in DOMAIN tbl : tbl[i].result # Null})

\* filter_by(status=...).count() and filter_by(result=...).count()
CountByStatus(tbl, status) == Len(FilterByStatus(tbl, status))

CountByResult(tbl, result) ==
    LET Keep(s) == s.result = result IN Len(SelectSeq(tbl, Keep))

\* n / d rounded to the nearest integer, a tie going to the even one
RoundHalfEven(n, d) ==
    LET q == n \div d
        r == n % d
    IN IF 2 * r < d THEN q
       ELSE IF 2 * r > d THEN q + 1
       ELSE IF q % 2 = 0 THEN q ELSE q + 1

\* variant: the rate is cut, not rounded
WinRateTruncated(wins, completed) ==
    IF completed > 0 THEN (1000 * wins) \div completed ELSE 0

\* round(wins / completed * 100, 1) if completed > 0 else 0, in tenths of a
\* percent (667 is 66.7)
WinRate(wins, completed) ==
    IF completed > 0 THEN RoundHalfEven(1000 * wins, completed) ELSE 0

ActiveUsers == 8542

Stats(sigs, strats) ==
    [ active_users |-> ActiveUsers,
      open_trades |-> CountByStatus(sigs, Active),
      win_rate |-> WinRate(CountByResult(sigs, Str("win")),
                           CountByStatus(sigs, Completed)),
      strategies_count |-> Len(strats),
      total_signals |-> Len(sigs),
      wins |-> CountByResult(sigs, Str("win")),
      losses |-> CountByResult(sigs, Str("loss")) ]

ToDicts(rows) == [k \in 1 .. Len(rows) |-> Signal_to_dict(rows[k])]

ReadUnchanged ==
    UNCHANGED <<signals, strategies, nextStrategy, now, connected, inbox,
                emitted, nreq, pc, sess>>

\* GET /api/signals
handle_signals_GET ==
    /\ \E rows \in OrderByCreatedDesc(signals) :
          last' = [op |-> "list_signals", code |-> 200, body |-> ToDicts(rows)]
    /\ ReadUnchanged

\* GET /api/signals/active
active_signals ==
    /\ last' = [op |-> "active_signals", code |-> 200,
                body |-> ToDicts(FilterByStatus(signals, Active))]
    /\ ReadUnchanged

\* GET /api/stats
get_stats ==
    /\ last' = [op |-> "stats", code |-> 200, body |-> Stats(signals, strategies)]
    /\ ReadUnchanged

\* GET /api/strategies
handle_strategies_GET ==
    /\ \E rows \in OrderByCreatedDesc(strategies) :
          last' = [op |-> "list_strategies", code |-> 200,
                   body |-> [k \in 1 .. Len(rows) |-> Strategy_to_dict(rows[k])]]
    /\ ReadUnchanged

----------------------------------------------------------------------------
\* get_stats as run by a request thread: each count is a query of its own,
\* and sees what is committed when it runs

StatsLocals ==
    [total_signals |-> 0, active |-> 0, completed |-> 0, wins |-> 0, losses |-> 0]

\* total_signals = Signal.query.count()
StatsTotal(t) ==
    /\ pc[t] = "idle"
    /\ nreq < MaxRequests
    /\ nreq' = nreq + 1
    /\ pc' = [pc EXCEPT ![t] = "stats_total"]
    /\ sess' = [sess EXCEPT ![t] =
                  [IdleSess EXCEPT !.op = "stats",
                                   !.obj = [StatsLocals EXCEPT
                                               !.total_signals = Len(signals)]]]
    /\ UNCHANGED <<signals, strategies, nextStrategy, now, connected, inbox,
                   emitted, last>>

\* one of the four filter_by(...).count() queries, in the order of the code
StatsCount(t, from, to, field, n) ==
    /\ pc[t] = from
    /\ pc' = [pc EXCEPT ![t] = to]
    /\ sess' = [sess EXCEPT ![t].obj = [sess[t].obj EXCEPT ![field] = n]]
    /\ UNCHANGED <<signals, strategies, nextStrategy, now, connected, inbox,
                   emitted, nreq, last>>

StatsActive(t) ==
    StatsCount(t, "stats_total", "stats_active", "active",
               CountByStatus(signals, Active))

StatsCompleted(t) ==
    StatsCount(t, "stats_active", "stats_completed", "completed",
               CountByStatus(signals, Completed))

StatsWins(t) ==
    StatsCount(t, "stats_completed", "stats_wins", "wins",
               CountByResult(signals, Str("win")))

StatsLosses(t) ==
    StatsCount(t, "stats_wins", "stats_losses", "losses",
               CountByResult(signals, Str("loss")))

\* win_rate, Strategy.query.count() and the response
StatsRespond(t) ==
    /\ pc[t] = "stats_losses"
    /\ LET l == sess[t].obj
       IN sess' = [sess EXCEPT
                      ![t].code = 200,
                      ![t].payload =
                          [ active_users |-> ActiveUsers,
                            open_trades |-> l.active,
                            win_rate |-> WinRate(l.wins, l.completed),
                            strategies_count |-> Len(strategies),
                            total_signals |-> l.total_signals,
                            wins |-> l.wins,
                            losses |-> l.losses ]]
    /\ pc' = [pc EXCEPT ![t] = "idle"]
    /\ UNCHANGED <<signals, strategies, nextStrategy, now, connected, inbox,
                   emitted, nreq, last>>

----------------------------------------------------------------------------
\* socket.io connect / disconnect: the handlers are empty, the server keeps
\* the set of connected clients

\* variant: a client that connects is sent the events emitted so far
on_connect_Replays(c) ==
    /\ c \notin connected
    /\ connected' = connected \cup {c}
    /\ inbox' = [inbox EXCEPT ![c] = inbox[c] \o emitted]
    /\ UNCHANGED <<signals, strategies, nextStrategy, now, emitted,
                   nreq, last, pc, sess>>

on_connect(c) ==
    /\ c \notin connected
    /\ connected' = connected \cup {c}
    /\ UNCHANGED <<signals, strategies, nextStrategy, now, inbox, emitted,
                   nreq, last, pc, sess>>

on_disconnect(c) ==
    /\ c \in connected
    /\ connected' = connected \ {c}
    /\ UNCHANGED <<signals, strategies, nextStrategy, now, inbox, emitted,
                   nreq, last, pc, sess>>

\* time passes
Tick ==
    /\ now < MaxClock
    /\ now' = now + 1
    /\ UNCHANGED <<signals, strategies, nextStrategy, connected, inbox, emitted,
                   nreq, last, pc, sess>>

----------------------------------------------------------------------------

Init ==
    /\ signals = <<>>
    /\ strategies = <<>>
    /\ nextStrategy = 1
    /\ now = 0
    /\ connected = {}
    /\ inbox = [c \in Clients |-> <<>>]
    /\ emitted = <<>>
    /\ nreq = 0
    /\ last = [op |-> "none"]
    /\ pc = [t \in Threads |-> "idle"]
    /\ sess = [t \in Threads |-> IdleSess]

Next ==
    \/ \E data \in CreateBodies : handle_signals_POST(data)
    \/ \E id \in SignalIds : \E data \in ResolveBodies : resolve_signal(id, data)
    \/ \E data \in StrategyBodies : handle_strategies_POST(data)
    \/ \E c \in Viewers : on_connect(c)
    \/ \E c \in Viewers : on_disconnect(c)
    \/ Tick

Spec == Init /\ [][Next]_vars

\* Several viewers connecting and disconnecting around the signal requests
FanoutCreateBodies ==
    { [pair |-> Str("EUR/USD"), direction |-> Str("buy"), duration |-> Num(5)],
      [direction |-> Str("buy"), duration |-> Str("abc")] }

FanoutResolveBodies == { [result |-> Str("win")] }

NextFanout ==
    \/ \E data \in FanoutCreateBodies : handle_signals_POST(data)
    \/ \E id \in SignalIds : \E data \in FanoutResolveBodies : resolve_signal(id, data)
    \/ \E c \in Clients : on_connect(c)
    \/ \E c \in Clients : on_disconnect(c)
    \/ Tick

SpecFanout == Init /\ [][NextFanout]_vars

\* Signal requests followed by reads
ReadsResolveBodies ==
    { [result |-> Str("win")],
      [result |-> Str("loss")],
      [result |-> Str("draw")] }

NextReads ==
    \/ \E data \in FanoutCreateBodies : handle_signals_POST(data)
    \/ \E id \in SignalIds : \E data \in ReadsResolveBodies : resolve_signal(id, data)
    \/ \E data \in StrategyBodies : handle_strategies_POST(data)
    \/ handle_signals_GET
    \/ handle_strategies_GET
    \/ active_signals
    \/ get_stats
    \/ Tick

SpecReads == Init /\ [][NextReads]_vars

\* Statistics of a store that already holds resolved signals (the database file
\* outlives the process): w signals resolved as win and l as loss
HistoryStore(w, l) ==
    [i \in 1 .. (w + l) |->
        ResolveFields(SignalRow(i, Str("EUR/USD"), Str("buy"), 5, 0),
                      [result |-> IF i <= w THEN Str("win") ELSE Str("loss")], 0)]

InitStats ==
    /\ \E c \in 0 .. MaxHistory : \E w \in 0 .. c : signals = HistoryStore(w, c - w)
    /\ strategies = <<>>
    /\ nextStrategy = 1
    /\ now = 0
    /\ connected = {}
    /\ inbox = [c \in Clients |-> <<>>]
    /\ emitted = <<>>
    /\ nreq = 0
    /\ last = [op |-> "none"]
    /\ pc = [t \in Threads |-> "idle"]
    /\ sess = [t \in Threads |-> IdleSess]

NextStats == get_stats

SpecStats == InitStats /\ [][NextStats]_vars

\* Strategy requests on a catalog that may hold a row written earlier, whose
\* images column is NULL or is not JSON
CatalogBodies ==
    StrategyBodies \cup
    { [title |-> Str("Trend"), content |-> Str("Follow it"), images |-> Null],
      [title |-> Str("Trend"), content |-> Str("Follow it"),
       images |-> Str("http://a")],
      [title |-> Str("Trend"), content |-> Str("Follow it"),
       images |-> List(<<Str("http://b")>>)],
      [title |-> Str(""), content |-> Str("")],
      [title |-> Null, content |-> Str("Follow it")],
      [content |-> Str("Follow it")] }

StoredCatalogs ==
    { <<>>,
      <<StrategyRow(1, Str("Old"), Str("Text"), Null, 0)>>,
      <<StrategyRow(1, Str("Old"), Str("Text"), Text(<<"[", "\"", "http://a">>), 0)>> }

InitCatalog ==
    /\ signals = <<>>
    /\ strategies \in StoredCatalogs
    /\ nextStrategy = Len(strategies) + 1
    /\ now = 0
    /\ connected = {}
    /\ inbox = [c \in Clients |-> <<>>]
    /\ emitted = <<>>
    /\ nreq = 0
    /\ last = [op |-> "none"]
    /\ pc = [t \in Threads |-> "idle"]
    /\ sess = [t \in Threads |-> IdleSess]

NextCatalog ==
    \/ \E data \in CatalogBodies :
          /\ Len(strategies) < MaxStrategies
          /\ handle_strategies_POST(data)
    \/ \E id \in StrategyIds : delete_strategy(id)
    \/ handle_strategies_DELETE
    \/ handle_strategies_GET
    \/ Tick

SpecCatalog == InitCatalog /\ [][NextCatalog]_vars

\* Signal and strategy requests, deletes included, with a viewer connecting and
\* disconnecting
NextStore ==
    \/ \E data \in FanoutCreateBodies : handle_signals_POST(data)
    \/ \E id \in SignalIds : \E data \in FanoutResolveBodies : resolve_signal(id, data)
    \/ \E data \in StrategyBodies :
          /\ Len(strategies) < MaxStrategies
          /\ handle_strategies_POST(data)
    \/ \E id \in StrategyIds : delete_strategy(id)
    \/ handle_strategies_DELETE
    \/ \E c \in Viewers : on_connect(c)
    \/ \E c \in Viewers : on_disconnect(c)
    \/ Tick

SpecStore == Init /\ [][NextStore]_vars

\* Requests served by concurrent threads
ConcCreateBodies ==
    { [pair |-> Str("EUR/USD"), direction |-> Str("buy"), duration |-> Num(5)],
      [direction |-> Str("buy"), duration |-> Str("abc")] }

ConcResolveBodies ==
    { [result |-> Str("win")],
      [result |-> Str("loss")],
      [other |-> Null] }

NextConc ==
    \/ \E t \in Threads : \E data \in ConcCreateBodies : CreateCommit(t, data)
    \/ \E t \in Threads : CreateRefresh(t)
    \/ \E t \in Threads : CreateEmit(t)
    \/ \E t \in Threads : \E id \in SignalIds : \E data \in ConcResolveBodies :
          ResolveLookup(t, id, data)
    \/ \E t \in Threads : ResolveWrite(t)
    \/ \E t \in Threads : ResolveCommit(t)
    \/ \E t \in Threads : ResolveRefresh(t)
    \/ \E t \in Threads : ResolveEmit(t)
    \/ Tick

SpecConc == Init /\ [][NextConc]_vars

\* get_stats served by one thread while the other threads commit creates and
\* resolves, on a store that may already hold signals
StoredSignals ==
    { <<>>,
      <<SignalRow(1, Str("EUR/USD"), Str("buy"), 5, 0)>>,
      <<ResolveFields(SignalRow(1, Str("EUR/USD"), Str("buy"), 5, 0),
                      [result |-> Str("win")], 0),
        SignalRow(2, Str("EUR/USD"), Str("sell"), 5, 0)>> }

StatsCreateBodies ==
    { [pair |-> Str("EUR/USD"), direction |-> Str("buy"), duration |-> Num(5)] }

StatsResolveBodies ==
    { [result |-> Str("win")],
      [result |-> Str("loss")] }

InitStatsConc ==
    /\ signals \in StoredSignals
    /\ strategies = <<>>
    /\ nextStrategy = 1
    /\ now = 0
    /\ connected = {}
    /\ inbox = [c \in Clients |-> <<>>]
    /\ emitted = <<>>
    /\ nreq = 0
    /\ last = [op |-> "none"]
    /\ pc = [t \in Threads |-> "idle"]
    /\ sess = [t \in Threads |-> IdleSess]

NextStatsConc ==
    \/ \E t \in Threads : \E data \in StatsCreateBodies : CreateCommit(t, data)
    \/ \E t \in Threads : CreateRefresh(t)
    \/ \E t \in Threads : CreateEmit(t)
    \/ \E t \in Threads : \E id \in SignalIds : \E data \in StatsResolveBodies :
          ResolveLookup(t, id, data)
    \/ \E t \in Threads : ResolveWrite(t)
    \/ \E t \in Threads : ResolveCommit(t)
    \/ \E t \in Threads : ResolveRefresh(t)
    \/ \E t \in Threads : ResolveEmit(t)
    \/ \E t \in Threads : StatsTotal(t)
    \/ \E t \in Threads : StatsActive(t)
    \/ \E t \in Threads : StatsCompleted(t)
    \/ \E t \in Threads : StatsWins(t)
    \/ \E t \in Threads : StatsLosses(t)
    \/ \E t \in Threads : StatsRespond(t)

SpecStatsConc == InitStatsConc /\ [][NextStatsConc]_vars

----------------------------------------------------------------------------
\* Properties of the signal lifecycle, under Spec (one request at a time)

ClientError == 400 .. 499

\* the step serves a request; last' holds the request and its response
Served == nreq' = nreq + 1

ServedResolve == Served /\ last'.op = "resolve"
ServedCreate == Served /\ last'.op = "create"

\* C1: a resolve of a signal that is already completed fails with a client
\* error and leaves the result and resolved_at of the first resolve unchanged.
C1_SecondResolveRejected ==
    [][ (/\ ServedResolve
         /\ last'.id \in DOMAIN signals
         /\ signals[last'.id].status = Completed)
        => /\ last'.code \in ClientError
           /\ signals'[last'.id].result = signals[last'.id].result
           /\ signals'[last'.id].resolved_at = signals[last'.id].resolved_at ]_vars

\* C2: every stored signal that is active has result and resolved_at unset, and
\* every stored signal that is completed has both set.
C2_StatusResultConsistent ==
    \A i \in DOMAIN signals :
        /\ signals[i].status = Active
              => signals[i].result = Null /\ signals[i].resolved_at = Null
        /\ signals[i].status = Completed
              => signals[i].result # Null /\ signals[i].resolved_at # Null

C5_StatusChangesOnce ==
    [][ /\ \A i \in DOMAIN signals :
              /\ i \in DOMAIN signals'
              /\ signals[i].status = Completed => signals'[i].status = Completed
              /\ signals[i].status # signals'[i].status
                    => signals[i].status = Active /\ signals'[i].status = Completed
        /\ \A i \in DOMAIN signals' \ DOMAIN signals :
              signals'[i].status = Active ]_vars

\* a completed signal was resolved again, successfully
C5_Witness ==
    /\ last.op = "resolve"
    /\ last.code = 200
    /\ signals[last.id].status = Completed
    /\ \E j, k \in DOMAIN emitted :
          /\ j < k
          /\ emitted[j].name = "signal_resolved"
          /\ emitted[k].name = "signal_resolved"
          /\ emitted[j].payload.id = last.id
          /\ emitted[k].payload.id = last.id

\* C6: the result of every stored signal is unset, 'win' or 'loss'.
C6_ResultWinOrLoss ==
    \A i \in DOMAIN signals : signals[i].result \in {Null, Str("win"), Str("loss")}

\* C7: every stored signal has a direction in {buy, sell}, a duration > 0 and a
\* non-empty pair.
C7_StoredSignalsValid ==
    \A i \in DOMAIN signals :
        /\ signals[i].direction \in {Str("buy"), Str("sell")}
        /\ signals[i].duration > 0
        /\ signals[i].pair # Str("")

\* C8: a resolve of an id that is not stored answers 404 with an error body,
\* changes no signal and no strategy, and emits nothing.
C8_ResolveMissingIs404 ==
    [][ (ServedResolve /\ last'.id \notin DOMAIN signals)
        => /\ last'.code = 404
           /\ "error" \in DOMAIN last'.body
           /\ signals' = signals
           /\ strategies' = strategies
           /\ emitted' = emitted
           /\ inbox' = inbox ]_vars

C8_Witness ==
    /\ last.op = "resolve"
    /\ last.code = 404
    /\ last.id \notin DOMAIN signals
    /\ signals # <<>>
    /\ strategies # <<>>

\* C9: a resolve of a stored active signal whose body has no result field is
\* answered with a client error, leaves the signal active with result and
\* resolved_at unset, and emits nothing.
C9_MissingResultClientError ==
    [][ (/\ ServedResolve
         /\ last'.id \in DOMAIN signals
         /\ signals[last'.id].status = Active
         /\ "result" \notin DOMAIN last'.data)
        => /\ last'.code \in ClientError
           /\ signals'[last'.id].status = Active
           /\ signals'[last'.id].result = Null
           /\ signals'[last'.id].resolved_at = Null
           /\ emitted' = emitted ]_vars

C3_OneConcurrentResolveWins ==
    \A t, u \in Threads :
        (/\ t # u
         /\ pc[t] = "idle" /\ pc[u] = "idle"
         /\ sess[t].op = "resolve" /\ sess[u].op = "resolve"
         /\ sess[t].loaded # Null /\ sess[u].loaded # Null
         /\ sess[t].id = sess[u].id
         /\ sess[t].loaded.status = Active /\ sess[u].loaded.status = Active
         /\ "result" \in DOMAIN sess[t].data /\ "result" \in DOMAIN sess[u].data)
        => \E w, l \in {t, u} :
              /\ w # l
              /\ sess[w].code = 200
              /\ sess[l].code \in ClientError
              /\ signals[sess[w].id].result = sess[w].data.result

C13_ImmutableFields ==
    [][ /\ \A i \in DOMAIN signals :
              /\ i \in DOMAIN signals'
              /\ signals'[i].id = signals[i].id
              /\ signals'[i].pair = signals[i].pair
              /\ signals'[i].direction = signals[i].direction
              /\ signals'[i].duration = signals[i].duration
              /\ signals'[i].created_at = signals[i].created_at
        /\ ServedResolve
            => \A i \in DOMAIN signals : i # last'.id => signals'[i] = signals[i] ]_vars

\* a signal created at time 0 was resolved at time 1 while another is stored
C13_Witness ==
    /\ last.op = "resolve"
    /\ last.code = 200
    /\ Len(signals) = 2
    /\ signals[last.id].created_at = DateTime(0)
    /\ signals[last.id].resolved_at = DateTime(1)

----------------------------------------------------------------------------
\* Properties of the reads, under SpecReads

\* the step serves the GET route op and returns a new response
ReadStep(op) == nreq' = nreq /\ last' # last /\ last'.op = op

WinOrLoss == {Str("win"), Str("loss")}

\* C14: every stored signal whose result is win or loss is completed with
\* resolved_at >= created_at, and every GET /api/signals lists each such
\* signal with status completed and resolved_at >= created_at.
C14_ResolvedReadsCompleted ==
    [][ /\ \A i \in DOMAIN signals' :
              signals'[i].result \in WinOrLoss
                 => /\ signals'[i].status = Completed
                    /\ signals'[i].resolved_at # Null
                    /\ signals'[i].resolved_at.dt >= signals'[i].created_at.dt
        /\ ReadStep("list_signals")
              => \A i \in DOMAIN signals :
                    signals[i].result \in WinOrLoss
                       => \E k \in DOMAIN last'.body :
                             /\ last'.body[k].id = i
                             /\ last'.body[k].result = signals[i].result
                             /\ last'.body[k].status = Completed
                             /\ last'.body[k].resolved_at # Null
                             /\ last'.body[k].resolved_at.iso
                                   >= last'.body[k].created_at.iso ]_vars

\* a read that lists a signal created at time 0 and resolved at time 1
C14_Witness ==
    /\ last.op = "list_signals"
    /\ \E k \in DOMAIN last.body :
          /\ last.body[k].result = Str("loss")
          /\ last.body[k].created_at = IsoFormat(DateTime(0))
          /\ last.body[k].resolved_at = IsoFormat(DateTime(1))

\* C15: GET /api/signals/active returns exactly the stored signals whose
\* status is active, each once, and no completed signal.
C15_ActiveListIsActiveSet ==
    [][ ReadStep("active_signals")
        => /\ {last'.body[k].id : k \in DOMAIN last'.body}
                 = {i \in DOMAIN signals : signals[i].status = Active}
           /\ Len(last'.body)
                 = Cardinality({i \in DOMAIN signals : signals[i].status = Active})
           /\ \A k \in DOMAIN last'.body :
                 /\ last'.body[k].status = Active
                 /\ last'.body[k].pair = signals[last'.body[k].id].pair ]_vars

\* the active list of a store that holds one active and one completed signal
C15_Witness ==
    /\ last.op = "active_signals"
    /\ Len(last.body) = 1
    /\ Len(signals) = 2
    /\ \E i \in DOMAIN signals : signals[i].status = Completed
    /\ signals[last.body[1].id].status = Active

\* C16: stats returns the counts of the current store, and resolving one
\* active signal as win raises wins by one, lowers open_trades by one and
\* changes no other count.
C16_StatsCounts ==
    [][ /\ ReadStep("stats")
           => /\ last'.body.total_signals = Cardinality(DOMAIN signals)
              /\ last'.body.open_trades
                    = Cardinality({i \in DOMAIN signals : signals[i].status = Active})
              /\ last'.body.wins
                    = Cardinality({i \in DOMAIN signals : signals[i].result = Str("win")})
              /\ last'.body.losses
                    = Cardinality({i \in DOMAIN signals : signals[i].result = Str("loss")})
              /\ last'.body.strategies_count = Cardinality(DOMAIN strategies)
        /\ (/\ ServedResolve
            /\ last'.code = 200
            /\ signals[last'.id].status = Active
            /\ last'.data.result = Str("win"))
           => LET before == Stats(signals, strategies)
                  after == Stats(signals', strategies')
              IN /\ after.wins = before.wins + 1
                 /\ after.open_trades = before.open_trades - 1
                 /\ after.losses = before.losses
                 /\ after.total_signals = before.total_signals
                 /\ after.strategies_count = before.strategies_count ]_vars

\* stats read after one of two signals was resolved as win
C16_Witness ==
    /\ last.op = "stats"
    /\ last.body.total_signals = 2
    /\ last.body.wins = 1
    /\ last.body.open_trades = 1
    /\ last.body.losses = 0

\* C17: the win_rate of stats is 0 when no signal is completed, and otherwise
\* wins / completed * 100 rounded to one decimal: the tenth nearest to it,
\* 66.7 for 2 wins of 3 and 100.0 for 1 of 1.
C17_WinRateRounded ==
    [][ ReadStep("stats")
        => LET w == Cardinality({i \in DOMAIN signals : signals[i].result = Str("win")})
               c == Cardinality({i \in DOMAIN signals : signals[i].status = Completed})
               rate == last'.body.win_rate
               diff == rate * c - 1000 * w
           IN /\ c = 0 => rate = 0
              /\ c > 0 => 2 * diff <= c /\ 2 * diff >= 0 - c
              /\ (w = 2 /\ c = 3) => rate = 667
              /\ (w = 1 /\ c = 1) => rate = 1000
              /\ rate >= 0 /\ rate <= 1000 ]_vars

\* stats of a store with 2 wins among 3 completed signals
C17_Witness ==
    /\ last.op = "stats"
    /\ last.body.wins = 2
    /\ last.body.total_signals = 3
    /\ last.body.win_rate = 667

----------------------------------------------------------------------------
\* Properties of the strategy catalog, under SpecCatalog

ServedStrategyCreate == Served /\ last'.op = "create_strategy"

\* a JSON list whose items are all strings
StringList(v) == IsList(v) /\ \A k \in DOMAIN v.list : IsStr(v.list[k])

\* C18: the images of every strategy, as any read or create response returns
\* them, are a list of strings.
C18_ImagesAlwaysStringList ==
    /\ \A i \in DOMAIN strategies : StringList(Strategy_to_dict(strategies[i]).images)
    /\ (last.op = "create_strategy" /\ last.code = 200)
          => StringList(last.body.strategy.images)
    /\ last.op = "list_strategies"
          => \A k \in DOMAIN last.body : StringList(last.body[k].images)

\* C19: a strategy created with a list of URL strings is returned, by the
\* create response and by every later list_all, with the same strings in the
\* same order; created with images omitted, with the empty list.
C19_ImagesRoundTrip ==
    [][ /\ (/\ ServedStrategyCreate
            /\ last'.code = 200
            /\ "images" \in DOMAIN last'.data => StringList(last'.data.images))
           => LET sent == IF "images" \in DOMAIN last'.data THEN last'.data.images
                          ELSE List(<<>>)
                  id == last'.body.strategy.id
              IN /\ last'.body.strategy.images = sent
                 /\ \A i \in DOMAIN strategies : strategies[i].id # id
                 /\ \A rows \in OrderByCreatedDesc(strategies') :
                       \E k \in DOMAIN rows :
                          /\ Strategy_to_dict(rows[k]).id = id
                          /\ Strategy_to_dict(rows[k]).images = sent
        /\ \A i \in DOMAIN strategies : \A j \in DOMAIN strategies' :
              strategies[i].id = strategies'[j].id => strategies[i] = strategies'[j]
        /\ ReadStep("list_strategies")
              => /\ Len(last'.body) = Len(strategies)
                 /\ \A i \in DOMAIN strategies : \E k \in DOMAIN last'.body :
                       last'.body[k] = Strategy_to_dict(strategies[i]) ]_vars

\* a list read that returns a strategy created with two URLs, in their order
C19_Witness ==
    /\ last.op = "list_strategies"
    /\ \E k \in DOMAIN last.body :
          last.body[k].images = List(<<Str("http://a"), Str("http://b")>>)
    /\ \E k \in DOMAIN last.body : last.body[k].images = List(<<>>)

\* C20: every stored strategy has a non-empty title and a non-empty content.
C20_TitleContentNonEmpty ==
    \A i \in DOMAIN strategies :
        /\ strategies[i].title # Str("")
        /\ strategies[i].content # Str("")

\* C21: delete(id) of a strategy in the catalog removes that strategy and
\* leaves every other strategy unchanged; delete(id) of an id
\* not in the catalog answers 404 and leaves the catalog unchanged.
C21_DeleteOneOrNotFound ==
    [][ (Served /\ last'.op = "delete_strategy")
           => IF \E i \in DOMAIN strategies : strategies[i].id = last'.id
              THEN /\ last'.code = 200
                   /\ Len(strategies') = Len(strategies) - 1
                   /\ \A j \in DOMAIN strategies' : strategies'[j].id # last'.id
                   /\ \A i \in DOMAIN strategies :
                         strategies[i].id # last'.id
                            => \E j \in DOMAIN strategies' : strategies'[j] = strategies[i]
              ELSE /\ last'.code = 404
                   /\ strategies' = strategies ]_vars

\* a second delete of an id that was handed out, answered 404 while the
\* catalog still holds another strategy
C21_Witness ==
    /\ last.op = "delete_strategy"
    /\ last.code = 404
    /\ last.id < nextStrategy
    /\ strategies # <<>>

\* C22: delete_all answers 200 and leaves the catalog empty whatever it held,
\* a list_all that follows returns [], and on an empty catalog it changes
\* nothing of the store.
C22_DeleteAllEmpties ==
    [][ /\ (Served /\ last'.op = "delete_all_strategies")
           => /\ last'.code = 200
              /\ strategies' = <<>>
              /\ strategies = <<>> =>
                    UNCHANGED <<signals, strategies, nextStrategy, emitted, inbox>>
        /\ (ReadStep("list_strategies") /\ last.op = "delete_all_strategies")
              => last'.body = <<>> ]_vars

\* a delete_all, as the first request, of a catalog that held a strategy
C22_Witness ==
    /\ last.op = "delete_all_strategies"
    /\ last.code = 200
    /\ strategies = <<>>
    /\ nextStrategy > 1
    /\ nreq = 1

----------------------------------------------------------------------------
\* Order of the list reads, under SpecReads

\* the entries of a list response, newest first
NewestFirst(body) ==
    \A k \in 1 .. (Len(body) - 1) :
        body[k].created_at.iso >= body[k + 1].created_at.iso

\* C23: a list_all of signals, and a list_all of strategies, returns every
\* stored record of its type exactly once, and each entry's created_at is >=
\* that of the entry after it.
C23_ListAllNewestFirst ==
    [][ /\ ReadStep("list_signals")
           => /\ Len(last'.body) = Len(signals)
              /\ \A i \in DOMAIN signals :
                    /\ Cardinality({k \in DOMAIN last'.body :
                                       last'.body[k].id = signals[i].id}) = 1
                    /\ \E k \in DOMAIN last'.body :
                          last'.body[k] = Signal_to_dict(signals[i])
              /\ NewestFirst(last'.body)
        /\ ReadStep("list_strategies")
           => /\ Len(last'.body) = Len(strategies)
              /\ \A i \in DOMAIN strategies :
                    /\ Cardinality({k \in DOMAIN last'.body :
                                       last'.body[k].id = strategies[i].id}) = 1
                    /\ \E k \in DOMAIN last'.body :
                          last'.body[k] = Strategy_to_dict(strategies[i])
              /\ NewestFirst(last'.body) ]_vars

\* a list of two signals created at different times, the later one first
C23_Witness ==
    /\ last.op = "list_signals"
    /\ Len(last.body) = 2
    /\ last.body[1].created_at.iso > last.body[2].created_at.iso
    /\ last.body[1].id = 2

----------------------------------------------------------------------------
\* Frame properties of the two stores, under SpecStore

StrategyOps == {"create_strategy", "delete_strategy", "delete_all_strategies"}

\* C24: a signal id in the store is in the store in every later state,
\* whatever signal or strategy request is served, and total_signals never
\* decreases.
C24_SignalsNeverDeleted ==
    [][ /\ \A i \in DOMAIN signals :
              \E j \in DOMAIN signals' : signals'[j].id = signals[i].id
        /\ Stats(signals', strategies').total_signals
              >= Stats(signals, strategies).total_signals ]_vars

\* a bulk delete of strategies served while a signal is stored
C24_Witness ==
    /\ last.op = "delete_all_strategies"
    /\ nextStrategy > 1
    /\ strategies = <<>>
    /\ signals # <<>>

\* C28: a strategy create, delete(id) or delete_all changes no signal and
\* emits nothing; a signal create or resolve changes no strategy; a connect or
\* disconnect changes neither.
C28_EntityTypesIndependent ==
    [][ /\ (Served /\ last'.op \in StrategyOps)
           => UNCHANGED <<signals, emitted, inbox>>
        /\ (Served /\ last'.op \in {"create", "resolve"})
           => UNCHANGED <<strategies, nextStrategy>>
        /\ connected' # connected
           => UNCHANGED <<signals, strategies, nextStrategy>> ]_vars

\* a strategy deleted by id while a signal is stored and a viewer is connected
C28_Witness ==
    /\ last.op = "delete_strategy"
    /\ last.code = 200
    /\ signals # <<>>
    /\ connected # {}

----------------------------------------------------------------------------
\* Delivery to subscribers, under SpecFanout

\* C25: an event is delivered only when it is emitted and only to the clients
\* connected at that moment; a connect or disconnect delivers nothing, so a
\* client that connects after an event was sent never receives it.
C25_NoReplayOnConnect ==
    [][ /\ \A c \in Clients :
              \/ inbox'[c] = inbox[c]
              \/ /\ c \in connected
                 /\ Len(emitted') = Len(emitted) + 1
                 /\ inbox'[c] = Append(inbox[c], emitted'[Len(emitted')])
        /\ connected' # connected => UNCHANGED <<inbox, emitted>> ]_vars

\* a client connected after an event was sent has received nothing, while the
\* client connected at the emit has received it
C25_Witness ==
    \E c, d \in Clients :
        /\ emitted # <<>>
        /\ c \in connected
        /\ inbox[c] = <<>>
        /\ inbox[d] = emitted

----------------------------------------------------------------------------
\* Properties of the threaded handlers

\* C26: every stats response satisfies wins + losses <= total_signals -
\* open_trades, wins <= completed and 0 <= win_rate <= 100, also when creates
\* and resolves commit between its count queries.
C26_StatsConsistent ==
    \A t \in Threads :
        (sess[t].op = "stats" /\ sess[t].code = 200)
        => LET b == sess[t].payload
           IN /\ b.wins + b.losses <= b.total_signals - b.open_trades
              /\ b.wins <= sess[t].obj.completed
              /\ 0 <= b.win_rate
              /\ b.win_rate <= 1000

\* C27: in the order of emission, every signal_resolved event comes after the
\* new_signal event of the same signal id.
C27_NewSignalBeforeResolved ==
    \A k \in DOMAIN emitted :
        emitted[k].name = "signal_resolved"
        => \E j \in 1 .. (k - 1) :
              /\ emitted[j].name = "new_signal"
              /\ emitted[j].payload.id = emitted[k].payload.id

====
